---- MODULE Spec2Model ----
(***************************************************************************)
(* Model of print-file-content.py: the ignore/blacklist filter, the line   *)
(* counter, the recursive tree renderer, the os.walk content dumper and    *)
(* the command-line entry point.                                           *)
(*                                                                         *)
(* Strings (names, paths, regular expressions) are sequences of one-       *)
(* character strings, so that prefix matching, suffixes, joins and sorting *)
(* are computed and not assumed.                                           *)
(***************************************************************************)
EXTENDS Integers, Sequences, FiniteSets, TLC

\* ------------------------------------------------------------------ bounds

\* Largest number of lines of a readable text file of the tree.
MaxLines == 1

\* ----------------------------------------------------------------- strings

\* The characters the model's names use, in ascending code point order
\* (Python compares and sorts str by code point).
CodeOrder ==
    << "-", ".", "/", "C", "E", "I", "L", "N", "S", "_",
       "a", "b", "c", "d", "e", "g", "h", "i", "j", "k", "l", "m", "n",
       "o", "p", "q", "r", "s", "t", "u", "v", "w", "x", "y", "z" >>

Ord(ch) == CHOOSE i \in 1..Len(CodeOrder) : CodeOrder[i] = ch

Min2(a, b) == IF a <= b THEN a ELSE b

\* s < t for Python str: the first differing character decides, a proper
\* prefix is smaller.
StrLess(s, t) ==
    LET n == Min2(Len(s), Len(t))
        diff == {i \in 1..n : s[i] # t[i]}
    IN  IF diff = {}
        THEN Len(s) < Len(t)
        ELSE LET i == CHOOSE k \in diff : \A j \in diff : k <= j
             IN  Ord(s[i]) < Ord(t[i])

\* str.startswith
startswith(s, p) ==
    /\ Len(p) <= Len(s)
    /\ \A i \in 1..Len(p) : s[i] = p[i]

\* names of the entries the trees of the model are built from
N_d == << "d" >>
N_b == << "b" >>
N_c == << "c" >>
N_a_txt == << "a", ".", "t", "x", "t" >>
N_x_sum == << "x", ".", "s", "u", "m" >>
N_env == << ".", "e", "n", "v" >>
N_git == << ".", "g", "i", "t" >>
N_node_modules == << "n", "o", "d", "e", "_", "m", "o", "d", "u", "l", "e", "s" >>
N_pycache == << "_", "_", "p", "y", "c", "a", "c", "h", "e", "_", "_" >>

\* ------------------------------------------------------------------ regex

\* A pattern is a sequence of atoms; c holds the atom's characters.
Lit(ch) == [t |-> "lit", c |-> << ch >>]
Lits(s) == [i \in 1..Len(s) |-> Lit(s[i])]
AnyStar == [t |-> "any_star", c |-> << >>]
StarOf(ch) == [t |-> "star", c |-> << ch >>]
OptGroup(s) == [t |-> "opt", c |-> s]
BeginAnchor == [t |-> "begin", c |-> << >>]
EndAnchor == [t |-> "end", c |-> << >>]

\* s[j..] begins with the literal group g
GroupAt(g, s, j) ==
    /\ j + Len(g) - 1 <= Len(s)
    /\ \A k \in 1..Len(g) : s[j + k - 1] = g[k]

\* Backtracking match of pat[i..] against s[j..]; a pattern that is used up
\* has matched, whatever is left of s (re.match anchors only the start).
RECURSIVE MatchFrom(_, _, _, _)
MatchFrom(pat, i, s, j) ==
    IF i > Len(pat)
    THEN TRUE
    ELSE LET a == pat[i]
         IN  CASE a.t = "lit" ->
                    /\ j <= Len(s)
                    /\ s[j] = a.c[1]
                    /\ MatchFrom(pat, i + 1, s, j + 1)
               [] a.t = "any_star" ->
                    \E k \in j..(Len(s) + 1) : MatchFrom(pat, i + 1, s, k)
               [] a.t = "star" ->
                    \E k \in j..(Len(s) + 1) :
                        /\ \A m \in j..(k - 1) : s[m] = a.c[1]
                        /\ MatchFrom(pat, i + 1, s, k)
               [] a.t = "opt" ->
                    \/ MatchFrom(pat, i + 1, s, j)
                    \/ /\ GroupAt(a.c, s, j)
                       /\ MatchFrom(pat, i + 1, s, j + Len(a.c))
               [] a.t = "begin" ->
                    /\ j = 1
                    /\ MatchFrom(pat, i + 1, s, j)
               [] a.t = "end" ->
                    /\ j = Len(s) + 1
                    /\ MatchFrom(pat, i + 1, s, j)

\* re.match(pattern, string) as a truth value
re_match(pattern, string) == MatchFrom(pattern, 1, string, 1)

\* The module's ignore patterns.  The ninth and tenth source literals have no
\* comma between them, so Python concatenates them into one pattern.
ignore_patterns ==
    << << AnyStar >> \o Lits(N_git)
          \o << OptGroup(<< "i", "g", "n", "o", "r", "e" >>), EndAnchor >>,
       << AnyStar >> \o Lits(<< ".", "i", "p", "y", "n", "b" >>) \o << EndAnchor >>,
       << BeginAnchor >> \o Lits(<< "L", "I", "C", "E", "N", "S", "E" >>)
          \o << EndAnchor >>,
       Lits(N_env) \o << EndAnchor >>,
       Lits(N_pycache) \o << EndAnchor >>,
       << AnyStar >> \o Lits(<< ".", "p", "y", "c" >>) \o << EndAnchor >>,
       << AnyStar >> \o Lits(<< ".", "o", "u", "t" >>) \o << EndAnchor >>,
       Lits(<< "t", "e", "s", "t", "-", "r", "e", "s", "u", "l", "t", "s",
               ".", "j", "s", "o", "n" >>) \o << EndAnchor >>,
       << AnyStar >> \o Lits(<< ".", "s", "u", "m" >>) \o << EndAnchor >>
          \o Lits(<< ".", "t", "e", "r", "r", "a", "f", "o", "r", "m",
                     ".", "l", "o", "c", "k", ".", "h", "c", "l" >>)
          \o << EndAnchor >>,
       Lits(<< ".", "t", "e", "r", "r", "a", "f", "o", "r" >>) \o << StarOf("m") >> >>

blacklist == << N_git, N_node_modules, N_pycache >>

\* ------------------------------------------------------------------ paths

Slash == << "/" >>

\* The working directory of the process.
cwd == << "/", "w" >>

\* os.path.join(a, b) for a relative b
os_path_join(a, b) ==
    IF a = << >> \/ a[Len(a)] = "/" THEN a \o b ELSE a \o Slash \o b

\* os.path.abspath on a path without '.', '..' or doubled separators (the
\* only paths the traversals build): an absolute path is itself, a relative
\* path is joined to the working directory.
os_path_abspath(path) ==
    IF path # << >> /\ path[1] = "/" THEN path ELSE os_path_join(cwd, path)

\* os.path.basename: what follows the last separator
os_path_basename(path) ==
    LET seps == {i \in 1..Len(path) : path[i] = "/"}
        last == IF seps = {} THEN 0
                ELSE CHOOSE i \in seps : \A j \in seps : j <= i
    IN  SubSeq(path, last + 1, Len(path))

should_ignore(name, path, patterns, bl) ==
    \/ \E k \in 1..Len(patterns) :
          re_match(patterns[k], name) \/ re_match(patterns[k], path)
    \/ LET abs_path == os_path_abspath(path)
       IN  \E k \in 1..Len(bl) :
              \/ os_path_basename(abs_path) = bl[k]
              \/ startswith(abs_path, os_path_abspath(bl[k]))

\* --------------------------------------------------------- the file system

\* The directory the run is pointed at is node 0; nodes 1..3 are its
\* possible children and node 4 is the possible child of node 1.
RootNode == 0
Nodes == 1..4
parent == << 0, 0, 0, 1 >>

\* What reading a file as UTF-8 text does: "text" decodes and has `lines`
\* lines, "bin" raises UnicodeDecodeError, "noperm" raises PermissionError.
FileKinds ==
    [kind : {"text"}, lines : 0..MaxLines]
        \cup [kind : {"bin", "noperm"}, lines : {0}]

Absent == [present |-> FALSE, name |-> << >>, kind |-> "none", lines |-> 0]

Entry(name, k) ==
    [present |-> TRUE, name |-> name, kind |-> k.kind, lines |-> k.lines]

DirKind == [kind |-> "dir", lines |-> 0]

TextKinds == [kind : {"text"}, lines : 0..MaxLines]

LongText == [kind |-> "text", lines |-> MaxLines]

BinKind == [kind |-> "bin", lines |-> 0]

\* The entries each node may be: node 1 a directory, the others files.
NodeChoices(n) ==
    CASE n = 1 -> {Absent}
                    \cup {Entry(nm, DirKind) : nm \in {N_d, N_git, N_node_modules}}
      [] n = 2 -> {Absent, Entry(N_env, LongText)}
                    \cup {Entry(N_b, k) : k \in FileKinds}
      [] n = 3 -> {Absent, Entry(N_x_sum, LongText)}
                    \cup {Entry(N_c, k) : k \in TextKinds \cup {BinKind}}
      [] n = 4 -> {Absent} \cup {Entry(N_a_txt, k) : k \in FileKinds}

\* The trees: every node is one of its choices and has a present parent.
Trees ==
    {f \in {<< e1, e2, e3, e4 >> : e1 \in NodeChoices(1), e2 \in NodeChoices(2),
                                  e3 \in NodeChoices(3), e4 \in NodeChoices(4)} :
        \A n \in Nodes :
            (f[n].present /\ parent[n] # RootNode) => f[parent[n]].present}

\* folder_path arguments: none given, a relative directory, a relative
\* directory whose absolute path begins like the blacklisted <cwd>/.git, and
\* a regular file.
F_none == << >>
F_p == << "p" >>
F_gitx == N_git \o << "x" >>
F_file == << "f" >>
Folders == {F_none, F_p, F_gitx, F_file}

ArgSets ==
    [folder_path : Folders, structure : BOOLEAN, structure_all : BOOLEAN,
     help_only : BOOLEAN]

VARIABLES
    fs,           \* the directory tree (unchanged during the runs)
    args,         \* the parsed command line
    run,          \* 1 for the first run on the tree, 2 for the second
    pc,           \* "main", "tree", "dump", "exited"
    out,          \* standard output, a sequence of printed items
    stack,        \* the frames of display_tree_structure, innermost first
    ret,          \* the value the outermost display_tree_structure returned
    total_lines,  \* total_lines of the entry point
    wdirs,        \* os.walk: the directories still to be walked, in order
    wroot,        \* os.walk: the directory being yielded
    wfiles,       \* os.walk: the yielded files the loop has not reached yet
    listed,       \* the directories whose entries were read
    opened,       \* the files that were opened
    unsorted,     \* some os.listdir of this run came back out of order
    exit_code,    \* the exit status, -1 while running
    exc,          \* the exception that ended the run, "none" otherwise
    prev          \* what the first run printed and returned

vars ==
    << fs, args, run, pc, out, stack, ret, total_lines, wdirs, wroot, wfiles,
       listed, opened, unsorted, exit_code, exc, prev >>

\* ---------------------------------------------------------------- os calls

Children(d) == {m \in Nodes : fs[m].present /\ parent[m] = d}

ChildNamed(d, name) == CHOOSE m \in Children(d) : fs[m].name = name

\* The orders a set may be enumerated in.
Perms(S) ==
    {f \in [1..Cardinality(S) -> S] :
        \A i, j \in 1..Cardinality(S) : i # j => f[i] # f[j]}

\* os.listdir / os.scandir: the names of the entries, in any order.
Listings(d) ==
    {[i \in 1..Cardinality(Children(d)) |-> fs[order[i]].name] :
        order \in Perms(Children(d))}

os_path_isdir(n) ==
    IF n = RootNode
    THEN args.folder_path \in {F_p, F_gitx}
    ELSE fs[n].kind = "dir"

IsSorted(items) ==
    \A i \in 1..(Len(items) - 1) : StrLess(items[i], items[i + 1])

\* Mutant of SortItems: the listing is used in the order it came back in.
KeepOrder(items) == items

\* list.sort(): insertion of each item into the sorted rest
RECURSIVE SortItems(_)
SortItems(items) ==
    IF items = << >>
    THEN << >>
    ELSE LET rest == SortItems(Tail(items))
             x == Head(items)
             before == SelectSeq(rest, LAMBDA y : StrLess(y, x))
             after == SelectSeq(rest, LAMBDA y : ~StrLess(y, x))
         IN  before \o << x >> \o after

\* mimetypes.guess_type(filepath)[0]: by extension, None ("") without a
\* known one.
guess_type(filepath) ==
    LET n == Len(filepath)
    IN  IF n >= 4 /\ SubSeq(filepath, n - 3, n) = << ".", "t", "x", "t" >>
        THEN "text/plain"
        ELSE ""

IntResult(v) == [t |-> "int", v |-> v, s |-> ""]
StrResult(s) == [t |-> "str", v |-> 0, s |-> s]
Raised(s) == [t |-> "raise", v |-> 0, s |-> s]

\* open(filepath, 'r', encoding='utf-8') and reading it through
ReadOutcome(n) ==
    CASE fs[n].kind = "text" -> IntResult(fs[n].lines)
      [] fs[n].kind = "bin" -> Raised("UnicodeDecodeError")
      [] fs[n].kind = "dir" -> Raised("IsADirectoryError")
      [] fs[n].kind = "noperm" -> Raised("PermissionError")

\* Mutant of count_lines_or_get_type: a text file is counted by its line
\* separators plus one.
CountPlusOne(filepath, n) ==
    LET r == ReadOutcome(n)
    IN  IF r.t = "int"
        THEN IntResult(r.v + 1)
        ELSE IF r.s \in {"UnicodeDecodeError", "IsADirectoryError"}
             THEN StrResult("unknown file type")
             ELSE r

count_lines_or_get_type(filepath, n) ==
    LET r == ReadOutcome(n)
    IN  IF r.t = "int"
        THEN r
        ELSE IF r.s \in {"UnicodeDecodeError", "IsADirectoryError"}
             THEN LET file_type == guess_type(filepath)
                  IN  StrResult(IF file_type # "" THEN file_type
                                ELSE "unknown file type")
             ELSE r

\* ------------------------------------------------------------------ output

NoInfo == [t |-> "none", v |-> 0, s |-> ""]

\* One printed item.  k says which print call wrote it; n is the node an
\* entry, content or error item is about (-1 otherwise).
Line(k) ==
    [k |-> k, n |-> -1, prefix |-> << >>, pointer |-> "", item |-> << >>,
     isdir |-> FALSE, info |-> NoInfo, path |-> << >>]

\* The branch and corner connectors and the two indentations of the tree,
\* written here in ASCII for the source's box-drawing characters.
Branch == "|-- "
Corner == "+-- "
BranchExtension == "|   "
CornerExtension == "    "

\* The line of an entry: prefix, pointer, item and, for a directory, the
\* separator or, for a file, line_info.
EntryLine(n, prefix, pointer, item, isdir, info) ==
    [Line("entry") EXCEPT !.n = n, !.prefix = prefix, !.pointer = pointer,
                          !.item = item, !.isdir = isdir, !.info = info]

TotalLine(total) == [Line("total") EXCEPT !.info = IntResult(total)]

ContentLine(n, filepath, lines) ==
    [Line("content") EXCEPT !.n = n, !.path = filepath, !.info = IntResult(lines)]

ErrorLine(n, filepath, e) ==
    [Line("error") EXCEPT !.n = n, !.path = filepath, !.info = Raised(e)]

\* ------------------------------------------------- display_tree_structure

\* Mutant of Pointers: every entry gets the branch connector.
AllBranch(n) == [i \in 1..n |-> Branch]

\* [branch] * (len(items) - 1) + [corner]: a negative repeat count gives
\* the empty list.
Pointers(n) == [i \in 1..(IF n >= 1 THEN n - 1 ELSE 0) |-> Branch] \o << Corner >>

\* Mutant of FilterItems: the listing is not filtered.
NoFilterItems(items, folder_path, patterns) == items

\* items without the entries should_ignore rejects
FilterItems(items, folder_path, patterns) ==
    SelectSeq(items,
              LAMBDA item :
                  ~should_ignore(item, os_path_join(folder_path, item),
                                 patterns, blacklist))

\* The frame of a call on a directory, after listing, sorting, filtering
\* and building the pointers.
NewFrame(folder_path, n, listing, patterns, prefix, show_line_counts) ==
    LET items == FilterItems(SortItems(listing), folder_path, patterns)
    IN  [folder_path |-> folder_path, node |-> n, items |-> items,
         pointers |-> Pointers(Len(items)), patterns |-> patterns,
         prefix |-> prefix, show_line_counts |-> show_line_counts,
         total_lines |-> 0]

\* zip(pointers, items) has a next pair
LoopActive(fr) == fr.items # << >> /\ fr.pointers # << >>

\* The frame with the current pair of the loop consumed.
Advance(fr) ==
    [fr EXCEPT !.items = Tail(@), !.pointers = Tail(@)]

\* An entry that is a directory: it is printed and the renderer is called on
\* it, which lists it.
TreeDir ==
    /\ pc = "tree"
    /\ stack # << >>
    /\ LoopActive(Head(stack))
    /\ LET fr == Head(stack)
           item == Head(fr.items)
           pointer == Head(fr.pointers)
           path == os_path_join(fr.folder_path, item)
           n == ChildNamed(fr.node, item)
           extension == IF pointer = Branch THEN BranchExtension
                        ELSE CornerExtension
       IN  /\ os_path_isdir(n)
           /\ out' = Append(out, EntryLine(n, fr.prefix, pointer, item, TRUE, NoInfo))
           /\ \E listing \in Listings(n) :
                 /\ stack' = << NewFrame(path, n, listing, fr.patterns,
                                         Append(fr.prefix, extension),
                                         fr.show_line_counts) >>
                              \o << Advance(fr) >> \o Tail(stack)
                 /\ unsorted' = (unsorted \/ ~IsSorted(listing))
           /\ listed' = listed \cup {n}
    /\ UNCHANGED << fs, args, run, pc, ret, total_lines, wdirs, wroot, wfiles,
                    opened, exit_code, exc, prev >>

\* What count_lines_or_get_type gives for the current file of the frame.
CurrentCount(fr) ==
    count_lines_or_get_type(os_path_join(fr.folder_path, Head(fr.items)),
                            ChildNamed(fr.node, Head(fr.items)))

\* An entry that is a file, printed with its line count or its type.
TreeFile ==
    /\ pc = "tree"
    /\ stack # << >>
    /\ LoopActive(Head(stack))
    /\ LET fr == Head(stack)
           item == Head(fr.items)
           pointer == Head(fr.pointers)
           n == ChildNamed(fr.node, item)
           line_count == CurrentCount(fr)
       IN  /\ ~os_path_isdir(n)
           /\ IF fr.show_line_counts
              THEN /\ line_count.t # "raise"
                   /\ opened' = opened \cup {n}
                   /\ out' = Append(out, EntryLine(n, fr.prefix, pointer, item,
                                                   FALSE, line_count))
                   /\ stack' = << [Advance(fr) EXCEPT !.total_lines =
                                      IF line_count.t = "int"
                                      THEN @ + line_count.v ELSE @] >>
                               \o Tail(stack)
              ELSE /\ opened' = opened
                   /\ out' = Append(out, EntryLine(n, fr.prefix, pointer, item,
                                                   FALSE, NoInfo))
                   /\ stack' = << Advance(fr) >> \o Tail(stack)
    /\ UNCHANGED << fs, args, run, pc, ret, total_lines, wdirs, wroot, wfiles,
                    listed, unsorted, exit_code, exc, prev >>

\* An exception count_lines_or_get_type does not catch leaves every frame
\* and the entry point: the interpreter prints a traceback and exits 1.
TreeFileRaise ==
    /\ pc = "tree"
    /\ stack # << >>
    /\ LoopActive(Head(stack))
    /\ LET fr == Head(stack)
           n == ChildNamed(fr.node, Head(fr.items))
           line_count == CurrentCount(fr)
       IN  /\ ~os_path_isdir(n)
           /\ fr.show_line_counts
           /\ line_count.t = "raise"
           /\ opened' = opened \cup {n}
           /\ exc' = line_count.s
    /\ pc' = "exited"
    /\ exit_code' = 1
    /\ stack' = << >>
    /\ UNCHANGED << fs, args, run, out, ret, total_lines, wdirs, wroot, wfiles,
                    listed, unsorted, prev >>

\* The loop of the innermost call is over: it returns its total, which the
\* caller adds to its own.
TreeReturn ==
    /\ pc = "tree"
    /\ stack # << >>
    /\ ~LoopActive(Head(stack))
    /\ LET fr == Head(stack)
           callers == Tail(stack)
       IN  IF callers = << >>
           THEN /\ ret' = fr.total_lines
                /\ stack' = << >>
           ELSE /\ ret' = ret
                /\ stack' = << [Head(callers) EXCEPT
                                   !.total_lines = @ + fr.total_lines] >>
                            \o Tail(callers)
    /\ UNCHANGED << fs, args, run, pc, out, total_lines, wdirs, wroot, wfiles,
                    listed, opened, unsorted, exit_code, exc, prev >>

\* ------------------------------------------------------------- entry point

\* Mutant of UsageConflict: the conflict of the two flags is not checked.
NoConflict(a) == FALSE

\* Both tree-only flags were given.
UsageConflict(a) == a.structure /\ a.structure_all

\* Mutant of TreePatterns: --structure-all passes the ignore patterns too.
AlwaysIgnorePatterns(a) == ignore_patterns

\* The ignore_patterns argument the entry point hands the renderer, after
\* the renderer's own "ignore_patterns or []".
TreePatterns(a) ==
    IF a.structure THEN ignore_patterns
    ELSE IF a.structure_all THEN << >>
    ELSE ignore_patterns

HeaderLine(a) ==
    [Line("header") EXCEPT !.info =
        StrResult(IF ~a.structure /\ a.structure_all
                  THEN "no ignore_patterns applied"
                  ELSE "subject to ignore_patterns")]

Exit(code) ==
    /\ pc' = "exited"
    /\ exit_code' = code

MainHelp ==
    /\ pc = "main"
    /\ args.help_only
    /\ out' = << Line("help") >>
    /\ Exit(0)
    /\ UNCHANGED << fs, args, run, stack, ret, total_lines, wdirs, wroot,
                    wfiles, listed, opened, unsorted, exc, prev >>

MainNoFolder ==
    /\ pc = "main"
    /\ ~args.help_only
    /\ args.folder_path = F_none
    /\ out' = << Line("folder_path_error"), Line("help") >>
    /\ Exit(1)
    /\ UNCHANGED << fs, args, run, stack, ret, total_lines, wdirs, wroot,
                    wfiles, listed, opened, unsorted, exc, prev >>

MainConflict ==
    /\ pc = "main"
    /\ ~args.help_only
    /\ args.folder_path # F_none
    /\ UsageConflict(args)
    /\ out' = << Line("conflict_error") >>
    /\ Exit(1)
    /\ UNCHANGED << fs, args, run, stack, ret, total_lines, wdirs, wroot,
                    wfiles, listed, opened, unsorted, exc, prev >>

\* Every mode that is left prints its header and calls the renderer on
\* folder_path, which returns 0 at once when that is no directory.
MainTree ==
    /\ pc = "main"
    /\ ~args.help_only
    /\ args.folder_path # F_none
    /\ ~UsageConflict(args)
    /\ out' = << HeaderLine(args) >>
    /\ pc' = "tree"
    /\ IF os_path_isdir(RootNode)
       THEN /\ \E listing \in Listings(RootNode) :
                  /\ stack' = << NewFrame(args.folder_path, RootNode, listing,
                                          TreePatterns(args), << >>, TRUE) >>
                  /\ unsorted' = ~IsSorted(listing)
            /\ listed' = {RootNode}
            /\ ret' = ret
       ELSE /\ stack' = << >>
            /\ ret' = 0
            /\ UNCHANGED << listed, unsorted >>
    /\ UNCHANGED << fs, args, run, total_lines, wdirs, wroot, wfiles, opened,
                    exit_code, exc, prev >>

\* --structure and --structure-all: the total is printed and the run ends.
MainStructureDone ==
    /\ pc = "tree"
    /\ stack = << >>
    /\ args.structure \/ args.structure_all
    /\ total_lines' = ret
    /\ out' = Append(out, TotalLine(ret))
    /\ Exit(0)
    /\ UNCHANGED << fs, args, run, stack, ret, wdirs, wroot, wfiles, listed,
                    opened, unsorted, exc, prev >>

\* Default mode: the total and the contents header are printed and
\* print_file_contents starts its os.walk at folder_path.
MainStartDump ==
    /\ pc = "tree"
    /\ stack = << >>
    /\ ~(args.structure \/ args.structure_all)
    /\ total_lines' = ret
    /\ out' = out \o << TotalLine(ret), Line("contents_header") >>
    /\ pc' = "dump"
    /\ wdirs' = << [path |-> args.folder_path, node |-> RootNode] >>
    /\ wfiles' = << >>
    /\ UNCHANGED << fs, args, run, stack, ret, wroot, listed, opened, unsorted,
                    exit_code, exc, prev >>

\* ---------------------------------------------------- print_file_contents

\* The ignore_patterns argument of the entry point's call.
WalkPatterns == ignore_patterns

\* The directories of a yielded dirs list that the loop body keeps.
KeepDirs(dirs, root) ==
    SelectSeq(dirs,
              LAMBDA d :
                  ~should_ignore(d, os_path_join(root, d), WalkPatterns, blacklist))

\* Mutant of SkipFile: the loop over files skips nothing.
NeverSkip(filename, root) == FALSE

\* The test that makes the loop over files skip one.
SkipFile(filename, root) ==
    should_ignore(filename, os_path_join(root, filename), WalkPatterns, blacklist)

\* os.walk takes the next directory: it yields its directories and files in
\* the order scandir gave them, the loop body prunes the directories, and the
\* kept ones are walked next, before the directories that were pending.  A
\* top that cannot be scanned yields nothing.
WalkNext ==
    /\ pc = "dump"
    /\ wfiles = << >>
    /\ wdirs # << >>
    /\ LET top == Head(wdirs)
       IN  IF os_path_isdir(top.node)
           THEN /\ \E listing \in Listings(top.node) :
                      LET dirs == SelectSeq(listing,
                                      LAMBDA x : os_path_isdir(ChildNamed(top.node, x)))
                          files == SelectSeq(listing,
                                      LAMBDA x : ~os_path_isdir(ChildNamed(top.node, x)))
                          kept == KeepDirs(dirs, top.path)
                      IN  /\ wdirs' = [i \in 1..Len(kept) |->
                                          [path |-> os_path_join(top.path, kept[i]),
                                           node |-> ChildNamed(top.node, kept[i])]]
                                      \o Tail(wdirs)
                          /\ wfiles' = files
                /\ wroot' = top
                /\ listed' = listed \cup {top.node}
           ELSE /\ wdirs' = Tail(wdirs)
                /\ UNCHANGED << wroot, wfiles, listed >>
    /\ UNCHANGED << fs, args, run, pc, out, stack, ret, total_lines, opened,
                    unsorted, exit_code, exc, prev >>

\* A file should_ignore rejects is passed over.
DumpSkip ==
    /\ pc = "dump"
    /\ wfiles # << >>
    /\ SkipFile(Head(wfiles), wroot.path)
    /\ wfiles' = Tail(wfiles)
    /\ UNCHANGED << fs, args, run, pc, out, stack, ret, total_lines, wdirs,
                    wroot, listed, opened, unsorted, exit_code, exc, prev >>

\* A file that reads as UTF-8 text is printed with its path.
DumpPrint ==
    /\ pc = "dump"
    /\ wfiles # << >>
    /\ ~SkipFile(Head(wfiles), wroot.path)
    /\ LET n == ChildNamed(wroot.node, Head(wfiles))
           r == ReadOutcome(n)
       IN  /\ r.t = "int"
           /\ out' = Append(out, ContentLine(n, os_path_join(wroot.path, Head(wfiles)), r.v))
           /\ opened' = opened \cup {n}
    /\ wfiles' = Tail(wfiles)
    /\ UNCHANGED << fs, args, run, pc, stack, ret, total_lines, wdirs, wroot,
                    listed, unsorted, exit_code, exc, prev >>

\* Any exception of the read is caught and reported on a line of its own.
DumpError ==
    /\ pc = "dump"
    /\ wfiles # << >>
    /\ ~SkipFile(Head(wfiles), wroot.path)
    /\ LET n == ChildNamed(wroot.node, Head(wfiles))
           r == ReadOutcome(n)
       IN  /\ r.t = "raise"
           /\ out' = Append(out, ErrorLine(n, os_path_join(wroot.path, Head(wfiles)), r.s))
           /\ opened' = opened \cup {n}
    /\ wfiles' = Tail(wfiles)
    /\ UNCHANGED << fs, args, run, pc, stack, ret, total_lines, wdirs, wroot,
                    listed, unsorted, exit_code, exc, prev >>

\* The walk is over and the script ends.
DumpDone ==
    /\ pc = "dump"
    /\ wfiles = << >>
    /\ wdirs = << >>
    /\ Exit(0)
    /\ UNCHANGED << fs, args, run, out, stack, ret, total_lines, wdirs, wroot,
                    wfiles, listed, opened, unsorted, exc, prev >>

\* ------------------------------------------------------------ the two runs

NoDir == [path |-> << >>, node |-> RootNode]

NoPrev == [out |-> << >>, total_lines |-> 0, exit_code |-> -1, unsorted |-> FALSE]

\* The lines display_tree_structure printed.
TreeLines(o) == SelectSeq(o, LAMBDA l : l.k = "entry")

Fresh ==
    /\ pc = "main"
    /\ out = << >>
    /\ stack = << >>
    /\ ret = 0
    /\ total_lines = 0
    /\ wdirs = << >>
    /\ wroot = NoDir
    /\ wfiles = << >>
    /\ listed = {}
    /\ opened = {}
    /\ unsorted = FALSE
    /\ exit_code = -1
    /\ exc = "none"

Init ==
    /\ fs \in Trees
    /\ args \in ArgSets
    /\ run = 1
    /\ prev = NoPrev
    /\ Fresh

\* The script is started a second time with the same command line on the
\* unchanged tree.
RunAgain ==
    /\ pc = "exited"
    /\ run = 1
    /\ run' = 2
    /\ prev' = [out |-> TreeLines(out), total_lines |-> total_lines,
                exit_code |-> exit_code, unsorted |-> unsorted]
    /\ pc' = "main"
    /\ out' = << >>
    /\ stack' = << >>
    /\ ret' = 0
    /\ total_lines' = 0
    /\ wdirs' = << >>
    /\ wroot' = NoDir
    /\ wfiles' = << >>
    /\ listed' = {}
    /\ opened' = {}
    /\ unsorted' = FALSE
    /\ exit_code' = -1
    /\ exc' = "none"
    /\ UNCHANGED << fs, args >>

Next ==
    \/ MainHelp
    \/ MainNoFolder
    \/ MainConflict
    \/ MainTree
    \/ TreeDir
    \/ TreeFile
    \/ TreeFileRaise
    \/ TreeReturn
    \/ MainStructureDone
    \/ MainStartDump
    \/ WalkNext
    \/ DumpSkip
    \/ DumpPrint
    \/ DumpError
    \/ DumpDone
    \/ RunAgain

Spec == Init /\ [][Next]_vars

\* ------------------------------------------------- what the claims speak of

\* The path the traversals build for a node.
RECURSIVE PathOf(_)
PathOf(n) ==
    IF n = RootNode
    THEN args.folder_path
    ELSE os_path_join(PathOf(parent[n]), fs[n].name)

Present(n) == fs[n].present /\ os_path_isdir(RootNode)

IsFile(n) == fs[n].kind \in {"text", "bin", "noperm"}

\* should_ignore is true of the entry itself.
Ignored(n, patterns) == should_ignore(fs[n].name, PathOf(n), patterns, blacklist)

\* The entry or a directory above it (below the root) is ignored.
RECURSIVE Hidden(_, _)
Hidden(n, patterns) ==
    \/ Ignored(n, patterns)
    \/ parent[n] # RootNode /\ Hidden(parent[n], patterns)

\* The blacklist alone: the basename is a blacklisted name, or the absolute
\* path begins with <cwd>/<blacklisted name>.
Blacklisted(n) ==
    \E k \in 1..Len(blacklist) :
        \/ fs[n].name = blacklist[k]
        \/ startswith(cwd \o Slash \o PathOf(n), cwd \o Slash \o blacklist[k])

RECURSIVE BlacklistHidden(_)
BlacklistHidden(n) ==
    \/ Blacklisted(n)
    \/ parent[n] # RootNode /\ BlacklistHidden(parent[n])

EndsWith(s, suffix) ==
    /\ Len(suffix) <= Len(s)
    /\ SubSeq(s, Len(s) - Len(suffix) + 1, Len(s)) = suffix

OutIndex == 1..Len(out)

\* The nodes printed by an item of the given kinds.
PrintedAs(kinds) == {out[i].n : i \in {j \in OutIndex : out[j].k \in kinds}}

TreeKinds == {"entry"}
DumpKinds == {"content", "error"}

\* A run that reached the traversals with the module's ignore patterns.
FilteredMode ==
    /\ ~args.help_only
    /\ args.folder_path # F_none
    /\ ~UsageConflict(args)
    /\ ~args.structure_all \/ args.structure

StructureMode == FilteredMode /\ args.structure

StructureAllMode ==
    /\ ~args.help_only
    /\ args.folder_path # F_none
    /\ args.structure_all
    /\ ~args.structure

DefaultMode == FilteredMode /\ ~args.structure /\ ~args.structure_all

Completed == pc = "exited" /\ exit_code = 0

\* The renderer has returned to the entry point, which has printed the total
\* and has either ended the run or is about to start the walk.
Rendered ==
    \/ Completed /\ listed # {} /\ (args.structure \/ args.structure_all)
    \/ pc = "dump" /\ wroot = NoDir /\ wfiles = << >> /\ wdirs # << >>

RECURSIVE SumLines(_)
SumLines(S) ==
    IF S = {}
    THEN 0
    ELSE LET n == CHOOSE m \in S : TRUE
         IN  fs[n].lines + SumLines(S \ {n})

\* The files that read as UTF-8 text and are reached from the root through
\* entries the filter lets pass.
CountedFiles ==
    {n \in Nodes : Present(n) /\ fs[n].kind = "text" /\ ~Hidden(n, ignore_patterns)}

\* ------------------------------------------------------------------ claims

\* C1: in a filtered mode (--structure or default) an entry for which
\* should_ignore is true, or that lies below such a directory, is never
\* printed by the tree renderer or by the dumper, never has its entries read
\* and is never opened.
C1_IgnoredNeverShown ==
    FilteredMode =>
        \A n \in (PrintedAs(TreeKinds \cup DumpKinds) \cup listed \cup opened)
                    \ {RootNode} :
            ~Hidden(n, ignore_patterns)

\* A default-mode run that completed on a tree with a file below an ignored
\* directory, and that did print and open other files.
C1_Witness ==
    /\ DefaultMode
    /\ Completed
    /\ Present(4)
    /\ Ignored(1, ignore_patterns)
    /\ \E n \in Nodes : Present(n) /\ IsFile(n) /\ Ignored(n, ignore_patterns)
    /\ PrintedAs(DumpKinds) # {}

\* C2: the total the renderer returns and the entry point prints in a
\* filtered run is the sum of the line counts of the UTF-8 readable files
\* reachable through non-ignored entries, each counted once; files that get
\* a type string add nothing.
C2_TotalIsSumOfReadable ==
    (FilteredMode /\ Rendered) =>
        /\ total_lines = SumLines(CountedFiles)
        /\ out[Len(out) - (IF pc = "dump" THEN 1 ELSE 0)]
              = TotalLine(SumLines(CountedFiles))

\* A --structure run that completed with a counted file in a subdirectory, a
\* second counted file, a visible undecodable file or an ignored text file
\* with lines of its own.
C2_Witness ==
    /\ StructureMode
    /\ Completed
    /\ 4 \in CountedFiles
    /\ fs[4].lines > 0
    /\ 3 \in CountedFiles
    /\ fs[3].lines > 0
    /\ \E n \in Nodes :
          /\ Present(n)
          /\ \/ fs[n].kind = "bin" /\ ~Hidden(n, ignore_patterns)
             \/ fs[n].kind = "text" /\ fs[n].lines > 0 /\ Hidden(n, ignore_patterns)

\* C3: in default mode every non-ignored file whose read fails gets an
\* 'Error reading' line and every non-ignored readable file still has its
\* contents printed: no read error of one file ends the run.
C3_ReadErrorsNeverAbort ==
    (DefaultMode /\ pc = "exited") =>
        \A n \in Nodes :
            (Present(n) /\ IsFile(n) /\ ~Hidden(n, ignore_patterns)) =>
                \E i \in OutIndex :
                    /\ out[i].n = n
                    /\ out[i].k = IF fs[n].kind = "text" THEN "content" ELSE "error"

\* C4: no exception leaves count_lines_or_get_type, so no run is ended by a
\* line-count failure.
C4_CountNeverRaises == exc = "none"

C6_StructureAllOnlyBlacklist ==
    StructureAllMode =>
        /\ \A n \in PrintedAs(TreeKinds) : ~BlacklistHidden(n)
        /\ Completed =>
              PrintedAs(TreeKinds) = {n \in Nodes : Present(n) /\ ~BlacklistHidden(n)}

\* A completed --structure-all run that printed an entry an ignore pattern
\* matches and left out a blacklisted directory that has a file.
C6_Witness ==
    /\ StructureAllMode
    /\ Completed
    /\ \E n \in PrintedAs(TreeKinds) :
          ~Blacklisted(n) /\ Ignored(n, ignore_patterns)
    /\ Blacklisted(1)
    /\ Present(4)
    /\ 4 \notin PrintedAs(TreeKinds)

\* C7: a second run on the unchanged tree with the same arguments prints the
\* same tree lines and returns the same total, whatever order the directory
\* listings come back in; the entries of one directory are printed in
\* ascending order of name.
C7_TreeDeterministic ==
    /\ \A i, j \in OutIndex :
          (/\ i < j
           /\ out[i].k = "entry"
           /\ out[j].k = "entry"
           /\ parent[out[i].n] = parent[out[j].n]) =>
              StrLess(out[i].item, out[j].item)
    /\ (run = 2 /\ pc = "exited") =>
          /\ TreeLines(out) = prev.out
          /\ total_lines = prev.total_lines
          /\ exit_code = prev.exit_code

\* Two completed runs of which exactly one was handed a listing that was
\* out of order, with at least three tree lines.
C7_Witness ==
    /\ run = 2
    /\ Completed
    /\ unsorted # prev.unsorted
    /\ Len(prev.out) >= 3

\* The children of d that pass the filter of the run.
Surviving(d) ==
    {n \in Nodes : fs[n].present /\ parent[n] = d /\ ~Ignored(n, TreePatterns(args))}

\* The tree lines of the direct children of d.
ChildLines(d) ==
    SelectSeq(out, LAMBDA l : l.k = "entry" /\ parent[l.n] = d)

\* C8: once the renderer has returned, every directory it was called on has
\* one line per child that passed the filter, the last of them (the greatest
\* surviving name) with the corner connector and the others with the branch
\* connector; a directory without surviving children has no line, and the
\* total of a root without surviving children is 0.
C8_Connectors ==
    Rendered =>
        /\ \A d \in listed :
              LET ls == ChildLines(d)
                  n == Cardinality(Surviving(d))
              IN  /\ Len(ls) = n
                  /\ \A i \in 1..Len(ls) :
                        /\ ls[i].n \in Surviving(d)
                        /\ ls[i].pointer = IF i < n THEN Branch ELSE Corner
                  /\ n > 0 =>
                        \A m \in Surviving(d) :
                            m = ls[n].n \/ StrLess(fs[m].name, fs[ls[n].n].name)
        /\ Surviving(RootNode) = {} => (total_lines = 0 /\ TreeLines(out) = << >>)

\* A completed --structure run on a root with three entries of which the
\* last in the sorted listing is filtered out and two survive.
C8_Witness ==
    /\ StructureMode
    /\ Completed
    /\ Cardinality(Children(RootNode)) = 3
    /\ Cardinality(Surviving(RootNode)) = 2
    /\ \A m \in Surviving(RootNode) : StrLess(fs[m].name, fs[1].name)
    /\ Len(ChildLines(RootNode)) = 2

\* The case of no surviving child: a completed run on a directory none of
\* whose entries pass the filter.
C8_WitnessEmpty ==
    /\ StructureMode
    /\ Completed
    /\ Children(RootNode) # {}
    /\ Surviving(RootNode) = {}

\* C9: in the filtered modes no entry whose name ends in '.sum' is printed in
\* the tree or in the dumped contents.
C9_SumFilesHidden ==
    FilteredMode =>
        \A i \in OutIndex :
            out[i].k \in (TreeKinds \cup DumpKinds) =>
                ~EndsWith(fs[out[i].n].name, << ".", "s", "u", "m" >>)

\* C10: in a completed default-mode run the files printed as leaves of the
\* tree are the files the dumper printed the contents or an error line of,
\* and everything the renderer printed comes before everything the dumper
\* printed.
C10_TreeAndDumpAgree ==
    DefaultMode =>
        /\ \A i, j \in OutIndex :
              (out[i].k \in {"header", "entry", "total"}
                 /\ out[j].k \in {"contents_header", "content", "error"}) => i < j
        /\ Completed =>
              {out[i].n : i \in {j \in OutIndex : out[j].k = "entry" /\ ~out[j].isdir}}
                 = PrintedAs(DumpKinds)

\* A completed default-mode run that dumped a file of a subdirectory and
\* reported an undecodable one, on a tree that also has an ignored file.
C10_Witness ==
    /\ DefaultMode
    /\ Completed
    /\ 4 \in PrintedAs({"content"})
    /\ PrintedAs({"error"}) # {}
    /\ \E n \in Nodes : Present(n) /\ IsFile(n) /\ Ignored(n, ignore_patterns)

====
